---- MODULE Spec2Model ----
(***************************************************************************)
(* The Viterbi decoder of src/Viterbi.ipynb (function viterbi, lines       *)
(* 39-94), as a state machine that walks through the function body.        *)
(*                                                                         *)
(* Arrays are functions over 0..n-1, as numpy indexes them.  A matrix is a *)
(* function from row index to row.  Probabilities are exact: every weight  *)
(* is a non-negative integer, to be read as a number of units of a common  *)
(* denominator (0.7 is 7 units of 1/10), so that products, comparisons and *)
(* ties are those of exact arithmetic.                                     *)
(***************************************************************************)
EXTENDS Integers, FiniteSets, TLC

VARIABLES y, transition_matrix, emission_matrix, initial_state,
          K, T, T1, T2, path, probability, i, pending, pc, err

inputs == <<y, transition_matrix, emission_matrix, initial_state>>
vars == <<y, transition_matrix, emission_matrix, initial_state,
          K, T, T1, T2, path, probability, i, pending, pc, err>>

(***************************************************************************)
(* Bounds of the model.                                                    *)
(***************************************************************************)
MaxK == 2       \* hidden states of the exhaustively enumerated inputs
MaxT == 2       \* observations of the exhaustively enumerated inputs
MaxW == 2       \* largest weight of the two-state numeric inputs

(* The unsigned byte type 'B' of T2 and path holds the values 0..255.      *)
ByteRange == 256

(* A local that is not bound yet: an array, a number, the exception.       *)
NoArray == <<>>
Unbound == 0 - 1
NoError == "none"

(***************************************************************************)
(* Array helpers.                                                          *)
(***************************************************************************)
Len(v) == Cardinality(DOMAIN v)
Vec(n, S) == [0..(n - 1) -> S]
Mat(r, c, S) == [0..(r - 1) -> Vec(c, S)]
Rows(M) == Len(M)
Cols(M) == Len(M[0])
Zeros(r, c) == [k \in 0..(r - 1) |-> [t \in 0..(c - 1) |-> 0]]
Ones(r, c) == [k \in 0..(r - 1) |-> [t \in 0..(c - 1) |-> 1]]

(* numpy.max of a vector: the value no entry exceeds.                      *)
NpMax(v) ==
    CHOOSE m \in {v[j] : j \in DOMAIN v} : \A j \in DOMAIN v : v[j] <= m

(* A 1-based position of the maximum: an index one too large.              *)
NpArgmaxOneBased(v) ==
    LET m == NpMax(v)
    IN  1 + (CHOOSE j \in DOMAIN v : v[j] = m /\ \A l \in 0..(j - 1) : v[l] # m)

(* The last occurrence of the maximum instead of the first.                *)
NpArgmaxLast(v) ==
    LET m == NpMax(v)
    IN  CHOOSE j \in DOMAIN v :
            v[j] = m /\ \A l \in (j + 1)..(Len(v) - 1) : v[l] # m

(* numpy.argmax of a vector: the index of the first occurrence of the      *)
(* maximum.                                                                *)
NpArgmax(v) ==
    LET m == NpMax(v)
    IN  CHOOSE j \in DOMAIN v : v[j] = m /\ \A l \in 0..(j - 1) : v[l] # m

(* A value stored into an array of dtype 'B' keeps its low eight bits.     *)
ToByte(n) == n % ByteRange
ToBytes(v) == [c \in DOMAIN v |-> ToByte(v[c])]

(* numpy broadcasting of two lengths, and of a vector to a length.         *)
CanBroadcast(m, n) == m = n \/ m = 1 \/ n = 1
BroadcastLen(m, n) == IF m > n THEN m ELSE n
At(v, k) == IF Len(v) = 1 THEN v[0] ELSE v[k]
Scalar(x) == [z \in {0} |-> x]

(* Python/numpy indexing of an axis of length n: a negative index counts   *)
(* from the end, anything outside -n..n-1 raises IndexError.               *)
IndexOk(ix, n) == ix >= 0 - n /\ ix < n
Index(ix, n) == IF ix < 0 THEN ix + n ELSE ix

(***************************************************************************)
(* Inputs.  An input is the four arguments of viterbi.                     *)
(***************************************************************************)
Input(yy, tm, em, ini) ==
    [y |-> yy, transition_matrix |-> tm, emission_matrix |-> em,
     initial_state |-> ini]

(* Every well-formed input with k states, n symbols, t observations and    *)
(* weights in 0..w.                                                        *)
WellFormed(k, n, t, w) ==
    /\ y \in Vec(t, 0..(n - 1))
    /\ transition_matrix \in Mat(k, k, 0..w)
    /\ emission_matrix \in Mat(k, n, 0..w)
    /\ initial_state \in Vec(k, 0..w)

(* Exhaustive inputs with weights 0 and 1: up to MaxK states, and one or   *)
(* two symbols (one symbol beyond two states, where the emission column is *)
(* then the same at every step).                                           *)
SymbolCounts(k) == IF k <= 2 THEN 1..2 ELSE {1}
BinaryInputs ==
    \E k \in 1..MaxK, t \in 1..MaxT :
        \E n \in SymbolCounts(k) : WellFormed(k, n, t, 1)

(* Every well-formed one-symbol input with k states, t observations, a    *)
(* uniform initial vector and transition and emission weights in 0..w      *)
(* (column 0 of the score table is then the emission column).              *)
UniformStart(k, t, w) ==
    /\ y = [u \in 0..(t - 1) |-> 0]
    /\ transition_matrix \in Mat(k, k, 0..w)
    /\ emission_matrix \in Mat(k, 1, 0..w)
    /\ initial_state = [j \in 0..(k - 1) |-> 1]

(* Two-state inputs with weights 0..MaxW.                                  *)
WeightedInputs == \E t \in 1..MaxT : UniformStart(2, t, MaxW)

(* Inputs of up to MaxK states with weights 0 and 1.                       *)
UniformInputs == \E k \in 1..MaxK, t \in 1..MaxT : UniformStart(k, t, 1)

(* The worked example of the notebook (lines 118-124), in units of 1/10.   *)
Wikipedia ==
    Input([t \in 0..2 |-> t],
          [j \in 0..1 |-> [k \in 0..1 |-> IF j = 0 THEN (IF k = 0 THEN 7 ELSE 3)
                                                   ELSE (IF k = 0 THEN 4 ELSE 6)]],
          [k \in 0..1 |-> [s \in 0..2 |->
              IF k = 0 THEN (IF s = 0 THEN 5 ELSE IF s = 1 THEN 4 ELSE 1)
                       ELSE (IF s = 0 THEN 1 ELSE IF s = 1 THEN 3 ELSE 6)]],
          [k \in 0..1 |-> IF k = 0 THEN 6 ELSE 4])

(* More states than a byte can index: all transitions and emissions 1, and *)
(* the initial weight on the states from s upwards.                        *)
LargeK == ByteRange + 2
LargeInputs ==
    {Input([t \in 0..(t1 - 1) |-> 0], Ones(LargeK, LargeK), Ones(LargeK, 1),
           [k \in 0..(LargeK - 1) |-> IF k >= s THEN 1 ELSE 0]) :
        t1 \in 1..2, s \in {0, ByteRange}}

(* Observation sequences with values outside 0..N-1, and the empty one.    *)
BadObservationInputs ==
    {Input(yy, Ones(2, 2), [k \in 0..1 |-> [s \in 0..1 |-> 1 + s]],
           [k \in 0..1 |-> 1]) :
        yy \in UNION {Vec(t, (0 - 3)..2) : t \in 0..2}}

(* Arguments whose shapes need not agree on one K; all weights 1.          *)
ShapeInputs ==
    {Input([t \in 0..(t1 - 1) |-> 0], Ones(r, c), Ones(e, 1),
           [k \in 0..(l - 1) |-> 1]) :
        t1 \in 1..2, r \in 1..3, c \in 1..3, e \in 1..3, l \in 1..3}

Inputs ==
    {Wikipedia} \cup LargeInputs \cup BadObservationInputs \cup ShapeInputs

Given(in) ==
    /\ y = in.y
    /\ transition_matrix = in.transition_matrix
    /\ emission_matrix = in.emission_matrix
    /\ initial_state = in.initial_state

(***************************************************************************)
(* The function body.                                                      *)
(***************************************************************************)
N == Cols(emission_matrix)

(* emission_matrix[:, y[t]]                                                *)
EmissionColumn(t) ==
    [r \in 0..(Rows(emission_matrix) - 1) |->
        emission_matrix[r][Index(y[t], N)]]

(* initial_state * emission_matrix[:, y[0]], with broadcasting             *)
InitProduct ==
    LET c == EmissionColumn(0)
        n == BroadcastLen(Len(initial_state), Len(c))
    IN  [k \in 0..(n - 1) |-> At(initial_state, k) * At(c, k)]

InitShapesOk ==
    /\ CanBroadcast(Len(initial_state), Rows(emission_matrix))
    /\ BroadcastLen(Len(initial_state), Rows(emission_matrix)) \in {K, 1}

(* T1[:, t - 1] with the entries already written in column t taken from    *)
(* column t instead: one vector updated in place.                          *)
PrevColumnInPlace(t) ==
    [j \in 0..(K - 1) |->
        IF pending # {} /\ j \notin pending THEN T1[j][t] ELSE T1[j][t - 1]]

(* T1[:, t - 1]                                                            *)
PrevColumn(t) == [j \in 0..(K - 1) |-> T1[j][t - 1]]

(* Row c of T1[:, i - 1] * transition_matrix.T                             *)
Candidates(prev, c) ==
    [j \in 0..(K - 1) |-> prev[j] * transition_matrix[j][c]]

(* Row r of T1[:, i-1] * transition_matrix.T *                             *)
(*          emission_matrix[np.newaxis, :, y[t]].T, with broadcasting      *)
FullCandidates(prev, r, t) ==
    LET c == IF Cols(transition_matrix) = 1 THEN 0 ELSE r
        e == IF Rows(emission_matrix) = 1 THEN 0 ELSE r
        x == Candidates(prev, c)
        b == emission_matrix[e][Index(y[t], N)]
    IN  [j \in 0..(K - 1) |-> x[j] * b]

ScoreRows == BroadcastLen(Cols(transition_matrix), Rows(emission_matrix))

(* np.max(..., 1) of line 80                                               *)
ScoreEntry(prev, r, t) == NpMax(FullCandidates(prev, r, t))
ScoreColumn(prev, t) ==
    [r \in 0..(ScoreRows - 1) |-> ScoreEntry(prev, r, t)]

(* np.argmax(T1[:, i-1] * transition_matrix.T, 1) of line 81               *)
BackEntry(prev, c) == NpArgmax(Candidates(prev, c))
BackColumn(prev) ==
    [c \in 0..(Cols(transition_matrix) - 1) |-> BackEntry(prev, c)]

ScoreShapesOk ==
    /\ CanBroadcast(Cols(transition_matrix), Rows(emission_matrix))
    /\ ScoreRows \in {K, 1}

BackShapesOk == Cols(transition_matrix) \in {K, 1}

(* table[:, t] = col, the column broadcast over the K rows                 *)
SetColumn(table, t, col) ==
    [k \in 0..(K - 1) |-> [table[k] EXCEPT ![t] = At(col, k)]]

Raise(e) ==
    /\ pc' = "raised"
    /\ err' = e

AtCall ==
    /\ K = Unbound /\ T = Unbound /\ T1 = NoArray /\ T2 = NoArray
    /\ path = NoArray /\ probability = Unbound
    /\ i = Unbound /\ pending = {} /\ pc = "call" /\ err = NoError

Init ==
    /\ BinaryInputs \/ WeightedInputs \/ \E in \in Inputs : Given(in)
    /\ AtCall

(* Well-formed inputs alone.                                               *)
InitOrder ==
    /\ UniformInputs \/ WeightedInputs \/ Given(Wikipedia)
    /\ AtCall

(* Lines 61-67: the dimensions and the two tables.                         *)
Dimensions ==
    /\ pc = "call"
    /\ K' = Rows(transition_matrix)
    /\ T' = Len(y)
    /\ T1' = Zeros(K', T')
    /\ T2' = Zeros(K', T')
    /\ pc' = "initialise"
    /\ UNCHANGED <<inputs, path, probability, i, pending, err>>

(* Lines 72-73: column 0.                                                  *)
Initialization ==
    /\ pc = "initialise"
    /\ IF T = 0 \/ ~IndexOk(y[0], N)
         THEN Raise("IndexError") /\ UNCHANGED <<T1, T2, i>>
       ELSE IF ~InitShapesOk
         THEN Raise("ValueError") /\ UNCHANGED <<T1, T2, i>>
       ELSE /\ T1' = SetColumn(T1, 0, InitProduct)
            /\ T2' = SetColumn(T2, 0, Scalar(0))
            /\ i' = 1
            /\ pc' = "iterate"
            /\ err' = err
    /\ UNCHANGED <<inputs, K, T, path, probability, pending>>

(* Lines 79-81: one pass of the loop body, both columns at once.           *)
Iterate ==
    /\ pc = "iterate"
    /\ i < T
    /\ IF ~IndexOk(y[i], N)
         THEN Raise("IndexError") /\ UNCHANGED <<T1, T2, i>>
       ELSE IF ~ScoreShapesOk
         THEN Raise("ValueError") /\ UNCHANGED <<T1, T2, i>>
       ELSE IF ~BackShapesOk
         THEN /\ T1' = SetColumn(T1, i, ScoreColumn(PrevColumn(i), i))
              /\ Raise("ValueError")
              /\ UNCHANGED <<T2, i>>
       ELSE /\ T1' = SetColumn(T1, i, ScoreColumn(PrevColumn(i), i))
            /\ T2' = SetColumn(T2, i, ToBytes(BackColumn(PrevColumn(i))))
            /\ i' = i + 1
            /\ UNCHANGED <<pc, err>>
    /\ UNCHANGED <<inputs, K, T, path, probability, pending>>

(* Lines 79-81 for one destination state k: the entries T1[k,i] and        *)
(* T2[k,i] alone, the states of a column taken in any order.               *)
IterateState(k) ==
    /\ pc = "iterate"
    /\ i < T
    /\ IndexOk(y[i], N) /\ ScoreShapesOk /\ BackShapesOk
    /\ k \in (IF pending = {} THEN 0..(K - 1) ELSE pending)
    /\ T1' = [T1 EXCEPT ![k][i] =
                ScoreEntry(PrevColumn(i), IF ScoreRows = 1 THEN 0 ELSE k, i)]
    /\ T2' = [T2 EXCEPT ![k][i] =
                ToByte(BackEntry(PrevColumn(i),
                                 IF Cols(transition_matrix) = 1 THEN 0 ELSE k))]
    /\ pending' = (IF pending = {} THEN 0..(K - 1) ELSE pending) \ {k}
    /\ i' = IF pending' = {} THEN i + 1 ELSE i
    /\ UNCHANGED <<inputs, K, T, path, probability, pc, err>>

(* Lines 85-86: the path array and the best final state.                   *)
Infer ==
    /\ pc = "iterate"
    /\ i >= T
    /\ path' = [[t \in 0..(T - 1) |-> 0] EXCEPT
                    ![T - 1] = ToByte(NpArgmax(PrevColumn(T)))]
    /\ i' = T - 1
    /\ pc' = "backtrack"
    /\ UNCHANGED <<inputs, K, T, T1, T2, probability, pending, err>>

(* Lines 90-91: one step of the backward walk.                             *)
Backtrack ==
    /\ pc = "backtrack"
    /\ i >= 1
    /\ path' = [path EXCEPT ![i - 1] = T2[path[i]][i]]
    /\ i' = i - 1
    /\ UNCHANGED <<inputs, K, T, T1, T2, probability, pending, pc, err>>

(* Lines 93-94: the probability, and the return.                           *)
Return ==
    /\ pc = "backtrack"
    /\ i < 1
    /\ probability' = NpMax(PrevColumn(T))
    /\ pc' = "returned"
    /\ UNCHANGED <<inputs, K, T, T1, T2, path, i, pending, err>>

Next ==
    \/ Dimensions
    \/ Initialization
    \/ Iterate
    \/ Infer
    \/ Backtrack
    \/ Return

Spec == Init /\ [][Next]_vars

(* The loop body taken one destination state at a time, in any order.      *)
NextOrder ==
    \/ Dimensions
    \/ Initialization
    \/ \E k \in 0..(K - 1) : IterateState(k)
    \/ Infer
    \/ Backtrack
    \/ Return

SpecOrder == InitOrder /\ [][NextOrder]_vars

(***************************************************************************)
(* The function as a recursion over whole columns, from the inputs alone:  *)
(* what lines 72-93 compute when each column is taken in one piece.        *)
(***************************************************************************)
RECURSIVE RefScores(_)
RefScores(t) ==
    IF t = 0 THEN [u \in {0} |-> [k \in 0..(K - 1) |-> At(InitProduct, k)]]
    ELSE LET done == RefScores(t - 1)
             col == ScoreColumn(done[t - 1], t)
         IN  [u \in 0..t |->
                 IF u < t THEN done[u] ELSE [k \in 0..(K - 1) |-> At(col, k)]]

RefBacks(scores) ==
    [u \in DOMAIN scores |->
        IF u = 0 THEN [k \in 0..(K - 1) |-> 0]
        ELSE LET col == ToBytes(BackColumn(scores[u - 1]))
             IN  [k \in 0..(K - 1) |-> At(col, k)]]

RECURSIVE RefState(_, _, _)
RefState(scores, backs, t) ==
    IF t = T - 1 THEN ToByte(NpArgmax(scores[T - 1]))
    ELSE backs[t + 1][RefState(scores, backs, t + 1)]

RefPath(scores, backs) == [t \in 0..(T - 1) |-> RefState(scores, backs, t)]
RefProbability(scores) == NpMax(scores[T - 1])

(***************************************************************************)
(* Vocabulary of the properties.                                           *)
(***************************************************************************)
ShapesAgree ==
    /\ Cols(transition_matrix) = Rows(transition_matrix)
    /\ Rows(emission_matrix) = Rows(transition_matrix)
    /\ Len(initial_state) = Rows(transition_matrix)

ObservationsInRange == \A t \in DOMAIN y : y[t] \in 0..(N - 1)

ValidInput == Len(y) >= 1 /\ ShapesAgree /\ ObservationsInRange

Returned == pc = "returned"
PathBuilt == pc \in {"backtrack", "returned"}

(* The columns 0..Filled-1 of the tables are complete.                     *)
Filled ==
    IF pc = "iterate" THEN i ELSE IF PathBuilt THEN T ELSE 0

(* The column of the recurrence that the last step completed, if any:      *)
(* every column t in 1..T-1 is this column in the state that follows its   *)
(* last write.                                                             *)
JustFilled ==
    IF pc = "iterate" /\ pending = {} /\ i >= 2 THEN {i - 1} ELSE {}

(* The joint probability of the state sequence q and the observations.     *)
RECURSIVE JointUpTo(_, _)
JointUpTo(q, t) ==
    IF t = 0 THEN initial_state[q[0]] * emission_matrix[q[0]][y[0]]
    ELSE JointUpTo(q, t - 1) * transition_matrix[q[t - 1]][q[t]]
                             * emission_matrix[q[t]][y[t]]

Joint(q) == JointUpTo(q, Len(y) - 1)

(* The lowest index at which a vector is maximal.                          *)
Greatest(v) == CHOOSE m \in {v[j] : j \in DOMAIN v} : \A l \in DOMAIN v : v[l] <= m
Maximisers(v) == LET m == Greatest(v) IN {j \in DOMAIN v : v[j] = m}
LowestMaximiser(v) ==
    LET s == Maximisers(v) IN CHOOSE j \in s : \A l \in s : j <= l

Emission(k, t) == emission_matrix[k][y[t]]

(* score[j,t-1] * transition[j,k], and the same times emission[k,obs[t]]   *)
SourceScores(k, t) ==
    [j \in 0..(K - 1) |-> T1[j][t - 1] * transition_matrix[j][k]]
FullScores(k, t) ==
    [j \in 0..(K - 1) |->
        T1[j][t - 1] * transition_matrix[j][k] * Emission(k, t)]

WikipediaPath == [t \in 0..2 |-> IF t = 2 THEN 1 ELSE 0]

(***************************************************************************)
(* C1.  For every valid input the returned path is a most probable one:    *)
(* its joint probability is at least that of each of the K^T state         *)
(* sequences; on the Wikipedia scenario the path is [0,0,1] with           *)
(* probability 0.01512 (15120 units of 1/10^6).                            *)
(***************************************************************************)
PathIsMostProbable ==
    (ValidInput /\ Returned) =>
        /\ \A q \in Vec(T, 0..(K - 1)) : Joint(path) >= Joint(q)
        /\ Given(Wikipedia) => path = WikipediaPath /\ probability = 15120

(* C1 for the state counts a byte can index.                               *)
PathIsMostProbableWithinByte ==
    Rows(transition_matrix) <= ByteRange => PathIsMostProbable

(***************************************************************************)
(* C2.  For every valid input the returned probability equals the joint    *)
(* probability recomputed from the returned path.                          *)
(***************************************************************************)
ProbabilityIsJointOfPath ==
    (ValidInput /\ Returned) => probability = Joint(path)

(* C2 for the state counts a byte can index.                               *)
ProbabilityIsJointOfPathWithinByte ==
    Rows(transition_matrix) <= ByteRange => ProbabilityIsJointOfPath

(***************************************************************************)
(* C3.  For every valid input the path has exactly T entries, each a state *)
(* index in 0..K-1, after the termination step and after every step of the *)
(* backtrace.                                                              *)
(***************************************************************************)
PathShape ==
    (ValidInput /\ PathBuilt) =>
        /\ DOMAIN path = 0..(Len(y) - 1)
        /\ \A t \in DOMAIN path : path[t] \in 0..(Rows(transition_matrix) - 1)

PathShapeWitness ==
    /\ ValidInput /\ pc = "backtrack"
    /\ T = MaxT /\ i = 0
    /\ K = MaxK
    /\ path[0] = K - 1 /\ path[T - 1] = K - 1

(***************************************************************************)
(* C4.  An observation sequence with a value outside 0..N-1, negative or   *)
(* too large, at whatever position, makes viterbi fail with InvalidIndex   *)
(* (IndexError): no path and no probability is returned.                   *)
(***************************************************************************)
BadObservationFails ==
    (ShapesAgree /\ ~ObservationsInRange) =>
        /\ ~Returned
        /\ pc = "raised" => err = "IndexError"

(***************************************************************************)
(* C5.  Arguments whose shapes do not agree on one K never yield a path or *)
(* a probability: viterbi fails with InvalidDimension.                     *)
(***************************************************************************)
ShapeMismatchFails ==
    ~ShapesAgree => ~Returned

(***************************************************************************)
(* C6.  The empty observation sequence fails with EmptySequence, raised    *)
(* before the score and backpointer tables are constructed; nothing is     *)
(* returned.                                                               *)
(***************************************************************************)
EmptySequenceFailsEarly ==
    Len(y) = 0 =>
        /\ T1 = NoArray /\ T2 = NoArray
        /\ pc = "raised" => err = "EmptySequence"
        /\ ~Returned

(***************************************************************************)
(* C7.  Tie-break: when several sources j attain the maximal               *)
(* score[j,t-1]*transition[j,k], backpointer[k,t] is the lowest-indexed of *)
(* them; when several states attain the maximal score[k,T-1], path[T-1]    *)
(* is the lowest-indexed of them.                                          *)
(***************************************************************************)
TiesGoToLowestIndex ==
    ValidInput =>
        /\ \A t \in JustFilled : \A k \in 0..(K - 1) :
              Cardinality(Maximisers(SourceScores(k, t))) > 1 =>
                  T2[k][t] = LowestMaximiser(SourceScores(k, t))
        /\ PathBuilt =>
              (Cardinality(Maximisers(PrevColumn(T))) > 1 =>
                  path[T - 1] = LowestMaximiser(PrevColumn(T)))

(* C7 for the state counts a byte can index.                               *)
TiesGoToLowestIndexWithinByte ==
    Rows(transition_matrix) <= ByteRange => TiesGoToLowestIndex

(***************************************************************************)
(* C8.  For every t in 1..T-1 and destination k the backpointer computed   *)
(* without the emission factor is the lowest-index argmax of the full      *)
(* score expression, for all non-negative inputs, emission 0 included.     *)
(***************************************************************************)
BackpointerIsFullArgmax ==
    ValidInput =>
        \A t \in JustFilled :
            LET back == BackColumn(PrevColumn(t))
            IN  \A k \in 0..(K - 1) :
                    back[k] = LowestMaximiser(FullScores(k, t))

(* C8 as amended: the same wherever emission[k,obs[t]] > 0; where it is 0  *)
(* the backpointer is still a maximiser of the full expression (all of     *)
(* whose candidates are 0), not necessarily the lowest-indexed one.        *)
BackpointerIsFullArgmaxUnlessZero ==
    ValidInput =>
        \A t \in JustFilled :
            LET back == BackColumn(PrevColumn(t))
            IN  \A k \in 0..(K - 1) :
                    /\ Emission(k, t) > 0 =>
                          back[k] = LowestMaximiser(FullScores(k, t))
                    /\ back[k] \in Maximisers(FullScores(k, t))

BackpointerWitness ==
    /\ ValidInput /\ pc = "iterate" /\ i = 2
    /\ \E k \in 0..(K - 1) :
          /\ Emission(k, 1) > 1
          /\ Cardinality(Maximisers(SourceScores(k, 1))) > 1
          /\ NpMax(SourceScores(k, 1)) > 0
    /\ \E k \in 0..(K - 1) :
          /\ Emission(k, 1) > 1
          /\ T2[k][1] > 0

(***************************************************************************)
(* C9.  After the forward pass, for every K, t in 1..T-1 and state k:      *)
(* backpointer[k,t] is a state j in 0..K-1 that achieves the score, and is *)
(* the argmax itself, not the argmax modulo 2^8.                           *)
(***************************************************************************)
BackpointerAchievesScore ==
    ValidInput =>
        \A t \in JustFilled :
            LET back == BackColumn(PrevColumn(t))
            IN  \A k \in 0..(K - 1) :
                    /\ T2[k][t] \in 0..(K - 1)
                    /\ T1[k][t] = FullScores(k, t)[T2[k][t]]
                    /\ T1[k][t] = Greatest(FullScores(k, t))
                    /\ T2[k][t] = back[k]

(* C9 for the state counts a byte can index.                               *)
BackpointerAchievesScoreWithinByte ==
    Rows(transition_matrix) <= ByteRange => BackpointerAchievesScore

(* Entry k of the column being computed has been written.                  *)
Written(k) == pending # {} /\ k \notin pending

(* Every completed column, the path and the probability are those of the   *)
(* whole-column computation; the unwritten entries are still zero.         *)
OrderState ==
    (ValidInput /\ Filled >= 1) =>
        LET scores == RefScores(IF Filled < T THEN Filled ELSE T - 1)
            backs == RefBacks(scores)
        IN  /\ \A t \in 0..(Filled - 1) : \A k \in 0..(K - 1) :
                  T1[k][t] = scores[t][k] /\ T2[k][t] = backs[t][k]
            /\ (pc = "iterate" /\ i < T) =>
                  \A k \in 0..(K - 1) :
                      /\ Written(k) =>
                            T1[k][i] = scores[i][k] /\ T2[k][i] = backs[i][k]
                      /\ ~Written(k) => T1[k][i] = 0 /\ T2[k][i] = 0
                      /\ \A t \in (i + 1)..(T - 1) :
                            T1[k][t] = 0 /\ T2[k][t] = 0
            /\ PathBuilt => pending = {}
            /\ Returned =>
                  /\ path = RefPath(scores, backs)
                  /\ probability = RefProbability(scores)

(* A step of the loop writes only unwritten entries of column i, i moves   *)
(* on only when the column is complete, and the backward walk starts at    *)
(* i = T and leaves the tables alone.                                      *)
OrderStep ==
    /\ (pc = "iterate" /\ pc' = "iterate") =>
          /\ \A k \in 0..(K - 1) : \A t \in 0..(T - 1) :
                (T1'[k][t] # T1[k][t] \/ T2'[k][t] # T2[k][t]) =>
                    t = i /\ ~Written(k)
          /\ i' = IF pending' = {} THEN i + 1 ELSE i
    /\ (pc = "iterate" /\ pc' = "backtrack") => i = T /\ pending = {}
    /\ (pc = "backtrack") => T1' = T1 /\ T2' = T2

(***************************************************************************)
(* C10.  Within one time step the per-state updates read only column t-1   *)
(* and write only their own entry of column t, so any order of the K       *)
(* destination states yields the same tables, path and probability; column *)
(* t is computed only after column t-1 is complete, and the backtrace      *)
(* starts only after column T-1 is complete.                               *)
(***************************************************************************)
OrderIndependence == []OrderState /\ [][OrderStep]_vars

OrderWitness ==
    /\ ValidInput /\ pc = "iterate" /\ K = MaxK /\ i = 1 /\ T = MaxT
    /\ pending = {0}
    /\ T1[K - 1][1] > 0 /\ T2[K - 1][1] > 0
====
